---------------------------- MODULE Spec2Model ----------------------------
(***************************************************************************)
(* Resource Catalog Service: the /resources router (routes/resources.js,   *)
(* current revision, lines 173-590), the validation middleware, the JSON   *)
(* data manager (helpers/data_manager.js) and the middleware stack of      *)
(* server.js.                                                              *)
(*                                                                         *)
(* Every handler is an async function: it runs synchronously up to its     *)
(* next `await`, and other requests run while the awaited file operation   *)
(* is pending.  One action of the model is one such synchronous segment:   *)
(* the completion of the pending file operation followed by the code up to *)
(* the next await (or to the response).                                    *)
(*                                                                         *)
(* Strings are sequences of one-character strings.  A uuid is modelled by  *)
(* its issue number: uuidv4() returns 122 random bits, and the model takes *)
(* two calls never to return the same value.                               *)
(*                                                                         *)
(* The fields of every record constructor are listed in the order in which *)
(* their names first appear in this module, which is the order the model   *)
(* checker keeps them in.                                                  *)
(***************************************************************************)
EXTENDS Integers, Sequences, FiniteSets, TLC

\* ------------------------------------------------------------------ bounds
\* uuidv4() is called at most MaxUuid times in a behaviour.
MaxUuid == 3
\* At most MaxRequests requests are received in a behaviour.
MaxRequests == 3
\* At most MaxFaults storage faults (a failing file operation, or a file
\* damaged from outside the service) happen in a behaviour.
MaxFaults == 1
\* The clock (Date.now(), in milliseconds) advances at most to MaxClock.
MaxClock == 1

\* The slots for the requests in flight at one time; an arriving request
\* takes the lowest free one.
Clients == {1, 2}

\* --------------------------------------------------------- JavaScript values
Undefined == [t |-> "undefined"]
NaN == [t |-> "NaN"]
Str(s) == [t |-> "string", s |-> s]
\* A number is held in tenths: Num(45) is 4.5, Num(40) is 4.
Num(n) == [t |-> "number", tenths |-> n]

Digits == <<"0", "1", "2", "3", "4", "5", "6", "7", "8", "9">>
IsDigit(c) == \E i \in 1..10 : Digits[i] = c
DigitVal(c) == (CHOOSE i \in 1..10 : Digits[i] = c) - 1
IsSpace(c) == c \in {" ", "\t", "\n"}

\* JavaScript truthiness, as used by `!title`, `if (authorId)`, `if (type)`.
Truthy(v) ==
    \/ v.t = "string" /\ Len(v.s) > 0
    \/ v.t = "number" /\ v.tenths # 0

RECURSIVE NatDigits(_)
NatDigits(n) ==
    IF n < 10 THEN <<Digits[n + 1]>>
    ELSE Append(NatDigits(n \div 10), Digits[(n % 10) + 1])

\* ToString of a JavaScript value, the first step of parseInt.
JsToString(v) ==
    CASE v.t = "string" -> v.s
      [] v.t = "undefined" -> <<"u", "n", "d", "e", "f", "i", "n", "e", "d">>
      [] v.t = "NaN" -> <<"N", "a", "N">>
      [] v.t = "number" ->
            LET a == IF v.tenths < 0 THEN -v.tenths ELSE v.tenths
                sign == IF v.tenths < 0 THEN <<"-">> ELSE <<>>
                frac == IF a % 10 = 0 THEN <<>> ELSE <<".", Digits[(a % 10) + 1]>>
            IN  sign \o NatDigits(a \div 10) \o frac

RECURSIVE TrimStart(_)
TrimStart(s) ==
    IF Len(s) > 0 /\ IsSpace(Head(s)) THEN TrimStart(Tail(s)) ELSE s

RECURSIVE TrimEnd(_)
TrimEnd(s) ==
    IF Len(s) > 0 /\ IsSpace(s[Len(s)]) THEN TrimEnd(SubSeq(s, 1, Len(s) - 1)) ELSE s

\* String.prototype.trim
Trim(s) == TrimEnd(TrimStart(s))

\* The value of the longest prefix of decimal digits of s, or -1 if s does
\* not start with a digit.
RECURSIVE DigitPrefix(_, _)
DigitPrefix(s, acc) ==
    IF Len(s) > 0 /\ IsDigit(Head(s))
    THEN DigitPrefix(Tail(s), (IF acc < 0 THEN 0 ELSE acc) * 10 + DigitVal(Head(s)))
    ELSE acc

\* parseInt(value, 10): ToString, skip leading white space, an optional
\* sign, then the longest prefix of digits; what follows is ignored.
\* The result is an integer as Num, or NaN.
parseInt(v) ==
    LET s == TrimStart(JsToString(v))
        neg == Len(s) > 0 /\ Head(s) = "-"
        body == IF Len(s) > 0 /\ Head(s) \in {"-", "+"} THEN Tail(s) ELSE s
        n == DigitPrefix(body, -1)
    IN  IF n < 0 THEN NaN ELSE Num(10 * (IF neg THEN -n ELSE n))

isNaN(v) == v.t = "NaN" \/ v.t = "undefined"
NumberIsInteger(v) == v.t = "number" /\ v.tenths % 10 = 0

\* ------------------------------------------------------------ state
VARIABLES
    files,      \* the three JSON files of the data directory
    req,        \* per client: the request in flight
    last,       \* the response sent last (request, status, body, sender)
    nextUuid,   \* number of uuidv4() calls made so far
    clock,      \* Date.now() when it was last read
    received,   \* number of requests received so far
    faults,     \* number of storage faults so far
    existed,    \* history: ids of all records ever saved to resources.json
    createdIds, \* history: ids returned by the 201 answers of POST /resources
    dupCreate,  \* history: a 201 of POST /resources repeated an earlier id
    deletedIds, \* history: ids of the records whose DELETE was answered 204
    createdRecs, \* history: the objects answered with 201 by POST /resources
    replacedIds \* history: ids whose PUT /resources/:id was answered 200

vars == <<files, req, last, nextUuid, clock, received, faults, existed, createdIds, dupCreate, deletedIds, createdRecs, replacedIds>>

RESOURCES_FILE == "resources.json"
RATINGS_FILE == "ratings.json"
FEEDBACK_FILE == "feedback.json"
FileNames == {RESOURCES_FILE, RATINGS_FILE, FEEDBACK_FILE}

\* A file is absent (never written), holds the JSON text of an array of
\* records (kept here in parsed form), or holds text that is not JSON.
AbsentFile == [st |-> "absent", data |-> <<>>]
JsonFile(data) == [st |-> "ok", data |-> data]
MalformedFile == [st |-> "malformed", data |-> <<>>]

\* ------------------------------------------------ helpers/data_manager.js
Null == [t |-> "null"]

\* JSON.parse(JSON.stringify(record)): a property whose value is undefined
\* is left out, NaN becomes null, strings and finite numbers are kept.
JsonRecord(rec) ==
    [k \in {f \in DOMAIN rec : rec[f] # Undefined} |->
        IF rec[k] = NaN THEN Null ELSE rec[k]]

JsonArray(data) == [i \in 1..Len(data) |-> JsonRecord(data[i])]

\* fs.readFile(path, 'utf8'): the text of the file, or a rejection with
\* code ENOENT (no such file) or with another code when `fault` strikes.
fsReadFile(f, fault) ==
    IF fault THEN [ok |-> FALSE, code |-> "EIO", text |-> AbsentFile]
    ELSE IF f.st = "absent" THEN [ok |-> FALSE, code |-> "ENOENT", text |-> AbsentFile]
    ELSE [ok |-> TRUE, code |-> "", text |-> f]

\* The same read without the ENOENT branch of the catch block, as in the
\* earlier readResources()/readRatings() helpers.
readDataNoEnoent(f, fault) ==
    LET r == fsReadFile(f, fault)
    IN  IF ~r.ok THEN [data |-> <<>>, ok |-> FALSE, err |-> r.code]
        ELSE IF r.text.st = "malformed"
             THEN [data |-> <<>>, ok |-> FALSE, err |-> "SyntaxError"]
             ELSE [data |-> r.text.data, ok |-> TRUE, err |-> ""]

\* readData(fileName): [] when the file is missing; the parsed array; or the
\* error thrown on (a read failure or a JSON.parse failure).
readData(f, fault) ==
    LET r == fsReadFile(f, fault)
    IN  IF ~r.ok
        THEN IF r.code = "ENOENT"
             THEN [data |-> <<>>, ok |-> TRUE, err |-> ""]
             ELSE [data |-> <<>>, ok |-> FALSE, err |-> r.code]
        ELSE IF r.text.st = "malformed"
             THEN [data |-> <<>>, ok |-> FALSE, err |-> "SyntaxError"]
             ELSE [data |-> r.text.data, ok |-> TRUE, err |-> ""]

\* A write that keeps the records another request saved since this
\* request's load, instead of replacing the whole file.
writeDataMerging(old, data) ==
    JsonFile(JsonArray(
        SelectSeq(old.data, LAMBDA x : \A i \in 1..Len(data) : data[i].id # x.id)
        \o data))

\* writeData(fileName, data): the file's whole content becomes
\* JSON.stringify(data, null, 4).
writeData(old, data) == JsonFile(JsonArray(data))

\* ------------------------------------------------------- ids and time
\* The n-th value returned by uuidv4().
Uuid(n) == Str(NatDigits(n))

\* An id no uuidv4() call returns.
UnknownId == Str(<<"x">>)

\* The k-th of the values uuidv4() returned before the behaviours start.
StoredId(k) == Str(<<"s">> \o NatDigits(k))

\* An id generator that issues the id of the first resource again.
uuidv4OfFirst(n) == Uuid(1)

\* An id generator that issues an id again.
uuidv4Reissued(n) == StoredId(1)

\* uuidv4(), called when n values have been issued.
uuidv4(n) == Uuid(n + 1)

\* A timestamp that does not follow the clock.
toISOStringOfEpoch(ms) == Str(<<"T", "0">>)

\* new Date().toISOString() at clock value ms (millisecond resolution).
toISOString(ms) == Str(<<"T">> \o NatDigits(ms))

\* findIndex whose -1 is used unchecked: splice(-1, 1) and [-1] then act on
\* the last element.
FindIndexByIdUnchecked(arr, id) ==
    IF \E i \in 1..Len(arr) : arr[i].id = id
    THEN CHOOSE i \in 1..Len(arr) : arr[i].id = id
    ELSE Len(arr)

\* Array.prototype.findIndex over the id: the index, or 0 for JavaScript's -1.
FindIndexById(arr, id) ==
    IF \E i \in 1..Len(arr) : arr[i].id = id
    THEN CHOOSE i \in 1..Len(arr) :
            arr[i].id = id /\ \A j \in 1..(i - 1) : arr[j].id # id
    ELSE 0

\* findIndex(x => x.id === id), the resourceId of the path ignored
FindIndexByIdOnly(arr, id, resourceId) == FindIndexById(arr, id)

\* findIndex(x => x.id === id && x.resourceId === resourceId)
FindIndexByIdAndResource(arr, id, resourceId) ==
    LET hit(i) == arr[i].id = id /\ arr[i].resourceId = resourceId
    IN  IF \E i \in 1..Len(arr) : hit(i)
        THEN CHOOSE i \in 1..Len(arr) : hit(i) /\ \A j \in 1..(i - 1) : ~hit(j)
        ELSE 0

\* A splice that removes nothing.
SpliceNothing(arr, idx) == arr

\* arr.splice(idx, 1)
Splice(arr, idx) == SubSeq(arr, 1, idx - 1) \o SubSeq(arr, idx + 1, Len(arr))

\* arr.filter(x => x.resourceId === resourceId)
FilterByResource(arr, resourceId) ==
    SelectSeq(arr, LAMBDA x : x.resourceId = resourceId)

Ids(arr) == {arr[i].id : i \in 1..Len(arr)}

\* ------------------------------------------------- middleware/validation.js
RatingMin == 1
RatingMax == 5
FeedbackMinLen == 10
FeedbackMaxLen == 500

BadRequest(msg) == [body |-> <<>>, ok |-> FALSE, error |-> msg]
Accepted(body) == [body |-> body, ok |-> TRUE, error |-> ""]

\* validateRating: 400 unless parseInt(ratingValue, 10) is in 1..5; on
\* success req.body.ratingValue becomes the parsed integer.
validateRating(body) ==
    LET value == body.ratingValue
        ratingInt == parseInt(value)
    IN  IF \/ value = Undefined
           \/ isNaN(ratingInt)
           \/ ~NumberIsInteger(ratingInt)
           \/ ratingInt.tenths < 10 * RatingMin
           \/ ratingInt.tenths > 10 * RatingMax
        THEN BadRequest("ratingValue muss eine Ganzzahl zwischen 1 und 5 sein.")
        ELSE Accepted([body EXCEPT !.ratingValue = ratingInt])

\* validateFeedbackText of the first revision: the length of the text as
\* sent, blanks included, is compared with 3 and 1000.
validateFeedbackText(body) ==
    LET text == body.feedbackText
    IN  IF text.t # "string" \/ Len(Trim(text.s)) = 0
        THEN BadRequest("feedbackText darf nicht leer sein.")
        ELSE IF Len(text.s) < 3
        THEN BadRequest("feedbackText ist zu kurz (mindestens 3 Zeichen).")
        ELSE IF Len(text.s) > 1000
        THEN BadRequest("feedbackText ist zu lang (maximal 1000 Zeichen).")
        ELSE Accepted([body EXCEPT !.feedbackText = Str(Trim(text.s))])

\* validateFeedback: 400 unless feedbackText is a string whose trimmed
\* length is in 10..500; on success req.body.feedbackText is the trimmed text.
validateFeedback(body) ==
    LET text == body.feedbackText
    IN  IF text.t # "string" \/ Len(Trim(text.s)) = 0
        THEN BadRequest("feedbackText darf nicht leer sein.")
        ELSE IF Len(Trim(text.s)) < FeedbackMinLen
        THEN BadRequest("feedbackText ist zu kurz (mindestens 10 Zeichen).")
        ELSE IF Len(Trim(text.s)) > FeedbackMaxLen
        THEN BadRequest("feedbackText ist zu lang (maximal 500 Zeichen).")
        ELSE Accepted([body EXCEPT !.feedbackText = Str(Trim(text.s))])

\* The field check of the first revision, which also requires authorId.
validateResourceFieldsWithAuthor(body) ==
    IF ~Truthy(body.title) \/ ~Truthy(body.type) \/ ~Truthy(body.url)
       \/ ~Truthy(body.authorId)
    THEN BadRequest("Fehlende Felder.")
    ELSE Accepted(body)

\* The field check of POST /resources and PUT /resources/:id.
validateResourceFields(body) ==
    IF ~Truthy(body.title) \/ ~Truthy(body.type) \/ ~Truthy(body.url)
    THEN BadRequest("Fehlende Felder.")
    ELSE Accepted(body)

\* ------------------------------------------------------------- server.js
\* The middleware stack of the application in registration order; arity 4
\* marks an error-handling middleware.
AppStack ==
    << [name |-> "express.json", arity |-> 3],
       [name |-> "logger", arity |-> 3],
       [name |-> "GET /", arity |-> 3],
       [name |-> "POST /restart", arity |-> 3],
       [name |-> "errorHandler", arity |-> 4],
       [name |-> "/resources", arity |-> 3] >>

RouterLayer(stack) == CHOOSE i \in 1..Len(stack) : stack[i].name = "/resources"

\* Express passes an error on to the layers registered AFTER the one that
\* raised it, and calls the first of them that takes four arguments; when
\* there is none, its built-in final handler answers.
NextErrorLayer(stack, from) ==
    IF \E j \in (from + 1)..Len(stack) : stack[j].arity = 4
    THEN CHOOSE j \in (from + 1)..Len(stack) :
            stack[j].arity = 4 /\ \A k \in (from + 1)..(j - 1) : stack[k].arity # 4
    ELSE 0

Json(v) == [value |-> v, kind |-> "json"]
NoContent == [kind |-> "empty"]
NoOutput == [kind |-> "none"]

\* The application's error handler: res.status(500).json({error: ...}).
errorHandler == [status |-> 500, out |-> Json([error |-> "Internal Server Error"]),
                 via |-> "errorHandler"]

\* Express's final handler for an error without a status: 500 and an HTML
\* page, which carries err.stack unless the environment is production.
finalhandler(production) ==
    [status |-> 500, out |-> [stack |-> ~production, kind |-> "html"],
     via |-> "finalhandler"]

\* next(err) called in a handler of the /resources router.
HandleError(production) ==
    IF NextErrorLayer(AppStack, RouterLayer(AppStack)) # 0
    THEN errorHandler
    ELSE finalhandler(production)

\* ------------------------------------------------- routes/resources.js
NoRequest == [body |-> <<>>, op |-> "none", rid |-> Undefined, sid |-> Undefined]

\* q: the request as sent; body: req.body (the middleware rewrites it);
\* res: the resource found by the existence check; avg: averageRating;
\* pending: the array handed to writeData; rec: the record answered.
IdleSlot ==
    [body |-> <<>>, rec |-> <<>>, status |-> 0, out |-> NoOutput, via |-> "none",
     pc |-> "idle", q |-> NoRequest, res |-> <<>>, avg |-> Null, pending |-> <<>>,
     errs |-> {}]

NoResponse ==
    [status |-> 0, out |-> NoOutput, via |-> "none", q |-> NoRequest, errs |-> {}]

Request(op, rid, sid, body) == [body |-> body, op |-> op, rid |-> rid, sid |-> sid]

Started(q, body) == [IdleSlot EXCEPT !.pc = "readResources", !.q = q, !.body = body]

\* res.status(status).json(...) / .send() in a route or a middleware
Answer(slot, status, out) ==
    [IdleSlot EXCEPT !.pc = "done", !.q = slot.q, !.errs = slot.errs,
                     !.status = status, !.out = out, !.via = "route"]

NotFound(slot, msg) == Answer(slot, 404, Json([error |-> msg]))

\* catch (err) { next(err); }
\* errs: the files whose load or save failed in the request (history).
Failed(slot, file) ==
    [IdleSlot EXCEPT !.pc = "failed", !.q = slot.q, !.errs = slot.errs \cup file]

At(c, op, pc) == req[c].pc = pc /\ req[c].q.op = op

\* new Date(): the clock is read when a handler asks for the time; since it
\* was last read it has stood still or advanced.
Now == clock..MaxClock

\* A storage fault may strike the file operation that completes in a step.
Faults == IF faults < MaxFaults THEN BOOLEAN ELSE {FALSE}

Strike(fault) == faults' = IF fault THEN faults + 1 ELSE faults

\* A handler segment ends in `slot`: the request waits for its next file
\* operation, or it has been answered; the answer is kept in `last`.
Settle(c, slot) ==
    CASE slot.pc = "done" ->
            /\ req' = [req EXCEPT ![c] = IdleSlot]
            /\ last' = [status |-> slot.status, out |-> slot.out, via |-> slot.via,
                        q |-> slot.q, errs |-> slot.errs]
      [] slot.pc = "failed" ->
            \* next(err): Express looks for an error handler; NODE_ENV is
            \* production or not
            /\ req' = [req EXCEPT ![c] = IdleSlot]
            /\ \E production \in BOOLEAN :
                 LET h == HandleError(production)
                 IN  last' = [status |-> h.status, out |-> h.out, via |-> h.via,
                              q |-> slot.q, errs |-> slot.errs]
      [] OTHER ->
            /\ req' = [req EXCEPT ![c] = slot]
            /\ UNCHANGED last

\* A request that reaches its handler although no validation middleware ran.
ArriveUnvalidated(c, q, v) ==
    /\ req[c].pc = "idle"
    /\ \A d \in Clients : d < c => req[d].pc # "idle"
    /\ received < MaxRequests
    /\ received' = received + 1
    /\ Settle(c, Started(q, q.body))
    /\ UNCHANGED <<files, nextUuid, clock, faults, existed, createdIds, dupCreate, deletedIds, createdRecs, replacedIds>>

\* A request arrives; the synchronous middleware and field checks (result v)
\* answer 400 or let the handler start its first read.
Arrive(c, q, v) ==
    /\ req[c].pc = "idle"
    /\ \A d \in Clients : d < c => req[d].pc # "idle"
    /\ received < MaxRequests
    /\ received' = received + 1
    /\ Settle(c,
                 IF v.ok THEN Started(q, v.body)
                 ELSE Answer([IdleSlot EXCEPT !.q = q], 400, Json([error |-> v.error])))
    /\ UNCHANGED <<files, nextUuid, clock, faults, existed, createdIds, dupCreate, deletedIds, createdRecs, replacedIds>>

\* resources.find(r => r.id = resourceId): an assignment in place of the
\* comparison, which yields the first record whatever its id.
FindResourceAssigning(resources, resourceId) ==
    IF Len(resources) > 0 THEN 1 ELSE 0

\* A lookup that yields the newest record whatever its id.
FindResourceNewest(resources, resourceId) == Len(resources)

\* resources.find(r => r.id === resourceId), as an index (0: undefined)
FindResource(resources, resourceId) == FindIndexById(resources, resourceId)

\* The first segment with the `if (!resource) return 404` left out.
CheckResourceSkipped(c, op, nextPc) ==
    /\ At(c, op, "readResources")
    /\ \E fault \in Faults :
        /\ Strike(fault)
        /\ LET rd == readData(files[RESOURCES_FILE], fault)
           IN  Settle(c,
                    IF ~rd.ok THEN Failed(req[c], {RESOURCES_FILE})
                    ELSE [req[c] EXCEPT !.pc = nextPc])
    /\ UNCHANGED <<files, nextUuid, clock, received, existed, createdIds, dupCreate, deletedIds, createdRecs, replacedIds>>

\* The first segment of the rating and feedback handlers: load the
\* resources and answer 404 unless the resource of the path exists.
CheckResource(c, op, nextPc) ==
    /\ At(c, op, "readResources")
    /\ \E fault \in Faults :
        /\ Strike(fault)
        /\ LET rd == readData(files[RESOURCES_FILE], fault)
               idx == FindResource(rd.data, req[c].q.rid)
           IN  Settle(c,
                    IF ~rd.ok THEN Failed(req[c], {RESOURCES_FILE})
                    ELSE IF idx = 0 THEN NotFound(req[c], "Ressource nicht gefunden.")
                    ELSE [req[c] EXCEPT !.pc = nextPc, !.res = rd.data[idx]])
    /\ UNCHANGED <<files, nextUuid, clock, received, existed, createdIds, dupCreate, deletedIds, createdRecs, replacedIds>>

\* await writeData(file, pending) of a handler, when it succeeds
Save(fs, file, pending) == [fs EXCEPT ![file] = writeData(@, pending)]

\* The last segment of every mutating handler: writeData completes (leaving
\* the files as `saved`) and the handler answers; a failing write leaves
\* the file as it was or truncated.
FinishWrite(c, op, file, saved, status, out) ==
    /\ At(c, op, "write")
    /\ \E fault \in Faults : \E truncated \in (IF fault THEN BOOLEAN ELSE {FALSE}) :
        /\ Strike(fault)
        /\ files' = IF ~fault THEN saved
                    ELSE IF truncated THEN [files EXCEPT ![file] = MalformedFile]
                    ELSE files
        /\ Settle(c,
                     IF fault THEN Failed(req[c], {file}) ELSE Answer(req[c], status, out))
        /\ existed' = IF ~fault /\ file = RESOURCES_FILE
                      THEN existed \cup Ids(req[c].pending) ELSE existed
        /\ createdIds' = IF ~fault /\ op = "POST /"
                         THEN createdIds \cup {req[c].rec.id} ELSE createdIds
        /\ dupCreate' = (dupCreate \/ (~fault /\ op = "POST /"
                                        /\ req[c].rec.id \in createdIds))
        /\ deletedIds' = IF ~fault /\ op = "DELETE /:id"
                         THEN deletedIds \cup {req[c].q.rid}
                         ELSE IF ~fault /\ status = 204
                         THEN deletedIds \cup {req[c].q.sid}
                         ELSE deletedIds
        /\ createdRecs' = IF ~fault /\ op = "POST /"
                          THEN createdRecs \cup {JsonRecord(req[c].rec)} ELSE createdRecs
        /\ replacedIds' = IF ~fault /\ op = "PUT /:id"
                          THEN replacedIds \cup {req[c].q.rid} ELSE replacedIds
    /\ UNCHANGED <<nextUuid, clock, received>>

\* ---- GET /resources
GetResources(c) ==
    \/ Arrive(c, Request("GET /", Undefined, Undefined, <<>>), Accepted(<<>>))
    \/ /\ At(c, "GET /", "readResources")
       /\ \E fault \in Faults :
            /\ Strike(fault)
            /\ LET rd == readData(files[RESOURCES_FILE], fault)
               IN  Settle(c,
                        IF rd.ok THEN Answer(req[c], 200, Json(rd.data))
                        ELSE Failed(req[c], {RESOURCES_FILE}))
       /\ UNCHANGED <<files, nextUuid, clock, received, existed, createdIds, dupCreate, deletedIds, createdRecs, replacedIds>>

\* ---- POST /resources
\* The id scheme of the first revision: highest id + 1.
newResourceIdMaxPlusOne(resources, n) ==
    LET nums == {parseInt(resources[i].id).tenths \div 10 : i \in 1..Len(resources)}
    IN  IF Len(resources) > 0
        THEN Str(NatDigits((CHOOSE m \in nums : \A k \in nums : k <= m) + 1))
        ELSE Str(NatDigits(1))

newResourceId(resources, n) == uuidv4(n)

\* { id, title, type, url } and authorId when it is truthy
ResourceRecord(id, body) ==
    LET base == [id |-> id, title |-> body.title, type |-> body.type, url |-> body.url]
    IN  IF Truthy(body.authorId) THEN base @@ [authorId |-> body.authorId] ELSE base

PostResource(c, Bodies) ==
    \/ \E b \in Bodies :
        Arrive(c, Request("POST /", Undefined, Undefined, b), validateResourceFields(b))
    \/ /\ At(c, "POST /", "readResources")
       /\ \E fault \in Faults :
            /\ Strike(fault)
            /\ LET rd == readData(files[RESOURCES_FILE], fault)
                   newResource == ResourceRecord(newResourceId(rd.data, nextUuid),
                                                 req[c].body)
               IN  IF ~rd.ok
                   THEN /\ Settle(c, Failed(req[c], {RESOURCES_FILE}))
                        /\ UNCHANGED nextUuid
                   ELSE /\ nextUuid < MaxUuid
                        /\ nextUuid' = nextUuid + 1
                        /\ Settle(c,
                                [req[c] EXCEPT !.pc = "write",
                                          !.pending = Append(rd.data, newResource),
                                          !.rec = newResource])
       /\ UNCHANGED <<files, clock, received, existed, createdIds, dupCreate, deletedIds, createdRecs, replacedIds>>
    \/ FinishWrite(c, "POST /", RESOURCES_FILE,
                   Save(files, RESOURCES_FILE, req[c].pending),
                   201, Json(JsonRecord(req[c].rec)))

\* ---- GET /resources/search?type=
Upper == <<"A", "V">>
Lower == <<"a", "v">>
LowerChar(ch) ==
    IF \E i \in 1..Len(Upper) : Upper[i] = ch
    THEN Lower[CHOOSE i \in 1..Len(Upper) : Upper[i] = ch]
    ELSE ch

\* String.prototype.toLowerCase
toLowerCase(v) == Str([i \in 1..Len(v.s) |-> LowerChar(v.s[i])])

SearchResources(c, Types) ==
    \/ \E type \in Types :
        Arrive(c, Request("GET /search", Undefined, Undefined, [type |-> type]),
               Accepted([type |-> type]))
    \/ /\ At(c, "GET /search", "readResources")
       /\ \E fault \in Faults :
            /\ Strike(fault)
            /\ LET rd == readData(files[RESOURCES_FILE], fault)
                   type == req[c].body.type
                   \* r.type.toLowerCase() throws when a stored type is no string
                   throws == Truthy(type) /\
                             (type.t # "string" \/
                              \E i \in 1..Len(rd.data) : rd.data[i].type.t # "string")
                   filtered ==
                       IF Truthy(type)
                       THEN SelectSeq(rd.data,
                                LAMBDA r : toLowerCase(r.type) = toLowerCase(type))
                       ELSE rd.data
               IN  Settle(c,
                        IF ~rd.ok \/ throws THEN Failed(req[c], IF rd.ok THEN {} ELSE {RESOURCES_FILE})
                        ELSE Answer(req[c], 200, Json(filtered)))
       /\ UNCHANGED <<files, nextUuid, clock, received, existed, createdIds, dupCreate, deletedIds, createdRecs, replacedIds>>

\* ---- GET /resources/:id
RECURSIVE SumTenths(_)
SumTenths(ratings) ==
    IF Len(ratings) = 0 THEN 0
    ELSE Head(ratings).ratingValue.tenths + SumTenths(Tail(ratings))

\* Math.round(x) for x = num / den >= 0: floor(x + 1/2)
MathRound(num, den) == (2 * num + den) \div (2 * den)

\* The average without the rounding step.
averageRatingTruncating(ratings, resourceId) ==
    LET relevant == FilterByResource(ratings, resourceId)
    IN  IF Len(relevant) > 0
        THEN Num(SumTenths(relevant) \div Len(relevant))
        ELSE Null

\* The average started at 0 and never set to null when nothing matches.
averageRatingZero(ratings, resourceId) ==
    LET relevant == FilterByResource(ratings, resourceId)
    IN  IF Len(relevant) > 0
        THEN Num(MathRound(SumTenths(relevant), Len(relevant)))
        ELSE Num(0)

\* averageRating of lines 501-508: null, or the mean of the matching
\* ratings as Math.round(mean * 10) / 10.  The values are integers 1..5
\* and the counts small, so the double arithmetic is exact here: mean * 10
\* is SumTenths / length, and the result is held in tenths.
averageRating(ratings, resourceId) ==
    LET relevant == FilterByResource(ratings, resourceId)
    IN  IF Len(relevant) > 0
        THEN Num(MathRound(SumTenths(relevant), Len(relevant)))
        ELSE Null

\* The aggregate scan of the ratings without its own try/catch.
RatingsScanUnguarded(rd, resourceId) ==
    IF rd.ok THEN [ok |-> TRUE, avg |-> averageRating(rd.data, resourceId)]
    ELSE [ok |-> FALSE, avg |-> Null]

\* try { ...averageRating... } catch (e) { averageRating = null; }
RatingsScan(rd, resourceId) ==
    IF rd.ok THEN [ok |-> TRUE, avg |-> averageRating(rd.data, resourceId)]
    ELSE [ok |-> TRUE, avg |-> Null]

\* try { feedbacks = allFeedbacks.filter(...) } catch (e) { feedbacks = []; }
FeedbackScan(rd, resourceId) ==
    IF rd.ok THEN FilterByResource(rd.data, resourceId) ELSE <<>>

GetResource(c, Rids) ==
    \/ \E rid \in Rids :
        Arrive(c, Request("GET /:id", rid, Undefined, <<>>), Accepted(<<>>))
    \/ CheckResource(c, "GET /:id", "readRatings")
    \/ /\ At(c, "GET /:id", "readRatings")
       /\ \E fault \in Faults :
            /\ Strike(fault)
            /\ LET rd == readData(files[RATINGS_FILE], fault)
                   scan == RatingsScan(rd, req[c].q.rid)
                   errs == IF rd.ok THEN req[c].errs ELSE req[c].errs \cup {RATINGS_FILE}
               IN  Settle(c,
                        IF scan.ok
                        THEN [req[c] EXCEPT !.pc = "readFeedback", !.avg = scan.avg,
                                            !.errs = errs]
                        ELSE Failed(req[c], {RATINGS_FILE}))
       /\ UNCHANGED <<files, nextUuid, clock, received, existed, createdIds, dupCreate, deletedIds, createdRecs, replacedIds>>
    \/ /\ At(c, "GET /:id", "readFeedback")
       /\ \E fault \in Faults :
            /\ Strike(fault)
            /\ LET rd == readData(files[FEEDBACK_FILE], fault)
                   feedbacks == FeedbackScan(rd, req[c].q.rid)
                   errs == IF rd.ok THEN req[c].errs ELSE req[c].errs \cup {FEEDBACK_FILE}
               IN  Settle(c,
                        Answer([req[c] EXCEPT !.errs = errs], 200,
                               Json(req[c].res @@ [averageRating |-> req[c].avg,
                                                   feedbacks |-> feedbacks])))
       /\ UNCHANGED <<files, nextUuid, clock, received, existed, createdIds, dupCreate, deletedIds, createdRecs, replacedIds>>

\* ---- PUT /resources/:id
\* A replace that keeps the fields of the previous record which the new one
\* does not set (a patch).
assignAtMerging(resources, idx, updatedResource) ==
    [resources EXCEPT ![idx] = updatedResource @@ @]

\* resources[idx] = updatedResource
assignAt(resources, idx, updatedResource) ==
    [resources EXCEPT ![idx] = updatedResource]

PutResource(c, Rids, Bodies) ==
    \/ \E rid \in Rids, b \in Bodies :
        Arrive(c, Request("PUT /:id", rid, Undefined, b), validateResourceFields(b))
    \/ /\ At(c, "PUT /:id", "readResources")
       /\ \E fault \in Faults :
            /\ Strike(fault)
            /\ LET rd == readData(files[RESOURCES_FILE], fault)
                   idx == FindIndexById(rd.data, req[c].q.rid)
                   updatedResource == ResourceRecord(req[c].q.rid, req[c].body)
               IN  Settle(c,
                        IF ~rd.ok THEN Failed(req[c], {RESOURCES_FILE})
                        ELSE IF idx = 0 THEN NotFound(req[c], "Ressource nicht gefunden.")
                        ELSE [req[c] EXCEPT !.pc = "write",
                                       !.pending = assignAt(rd.data, idx, updatedResource),
                                       !.rec = updatedResource])
       /\ UNCHANGED <<files, nextUuid, clock, received, existed, createdIds, dupCreate, deletedIds, createdRecs, replacedIds>>
    \/ FinishWrite(c, "PUT /:id", RESOURCES_FILE,
                   Save(files, RESOURCES_FILE, req[c].pending),
                   200, Json(JsonRecord(req[c].rec)))

\* ---- DELETE /resources/:id
\* A delete that also removes the ratings and feedback of the resource.
deleteSaveCascading(fs, pending, resourceId) ==
    LET without(f) ==
            IF f.st = "ok"
            THEN JsonFile(SelectSeq(f.data, LAMBDA x : x.resourceId # resourceId))
            ELSE f
    IN  [fs EXCEPT ![RESOURCES_FILE] = writeData(@, pending),
                   ![RATINGS_FILE] = without(@),
                   ![FEEDBACK_FILE] = without(@)]

\* await writeData(RESOURCES_FILE, resources) of the delete handler
deleteSave(fs, pending, resourceId) == Save(fs, RESOURCES_FILE, pending)

DeleteResource(c, Rids) ==
    \/ \E rid \in Rids :
        Arrive(c, Request("DELETE /:id", rid, Undefined, <<>>), Accepted(<<>>))
    \/ /\ At(c, "DELETE /:id", "readResources")
       /\ \E fault \in Faults :
            /\ Strike(fault)
            /\ LET rd == readData(files[RESOURCES_FILE], fault)
                   idx == FindIndexById(rd.data, req[c].q.rid)
               IN  Settle(c,
                        IF ~rd.ok THEN Failed(req[c], {RESOURCES_FILE})
                        ELSE IF idx = 0 THEN NotFound(req[c], "Ressource nicht gefunden.")
                        ELSE [req[c] EXCEPT !.pc = "write", !.pending = Splice(rd.data, idx)])
       /\ UNCHANGED <<files, nextUuid, clock, received, existed, createdIds, dupCreate, deletedIds, createdRecs, replacedIds>>
    \/ FinishWrite(c, "DELETE /:id", RESOURCES_FILE,
                   deleteSave(files, req[c].pending, req[c].q.rid), 204, NoContent)

\* ---- POST /resources/:id/rating
\* { id, resourceId, ratingValue: parseInt(ratingValue, 10) } and userId
\* when it is truthy
RatingRecord(id, resourceId, body) ==
    LET base == [id |-> id, resourceId |-> resourceId,
                 ratingValue |-> parseInt(body.ratingValue)]
    IN  IF Truthy(body.userId) THEN base @@ [userId |-> body.userId] ELSE base

PostRating(c, Rids, Bodies) ==
    \/ \E rid \in Rids, b \in Bodies :
        Arrive(c, Request("POST /:id/rating", rid, Undefined, b), validateRating(b))
    \/ CheckResource(c, "POST /:id/rating", "readRatings")
    \/ /\ At(c, "POST /:id/rating", "readRatings")
       /\ \E fault \in Faults :
            /\ Strike(fault)
            /\ LET rd == readData(files[RATINGS_FILE], fault)
                   newRating == RatingRecord(uuidv4(nextUuid), req[c].q.rid, req[c].body)
               IN  IF ~rd.ok
                   THEN /\ Settle(c, Failed(req[c], {RATINGS_FILE}))
                        /\ UNCHANGED nextUuid
                   ELSE /\ nextUuid < MaxUuid
                        /\ nextUuid' = nextUuid + 1
                        /\ Settle(c,
                                [req[c] EXCEPT !.pc = "write",
                                          !.pending = Append(rd.data, newRating),
                                          !.rec = newRating])
       /\ UNCHANGED <<files, clock, received, existed, createdIds, dupCreate, deletedIds, createdRecs, replacedIds>>
    \/ FinishWrite(c, "POST /:id/rating", RATINGS_FILE,
                   Save(files, RATINGS_FILE, req[c].pending),
                   201, Json(JsonRecord(req[c].rec)))

\* ---- DELETE /resources/:resourceId/rating/:ratingId
DeleteRating(c, Rids, Sids) ==
    \/ \E rid \in Rids, sid \in Sids :
        Arrive(c, Request("DELETE /:resourceId/rating/:ratingId", rid, sid, <<>>),
               Accepted(<<>>))
    \/ CheckResource(c, "DELETE /:resourceId/rating/:ratingId", "readRatings")
    \/ /\ At(c, "DELETE /:resourceId/rating/:ratingId", "readRatings")
       /\ \E fault \in Faults :
            /\ Strike(fault)
            /\ LET rd == readData(files[RATINGS_FILE], fault)
                   idx == FindIndexByIdAndResource(rd.data, req[c].q.sid, req[c].q.rid)
               IN  Settle(c,
                        IF ~rd.ok THEN Failed(req[c], {RATINGS_FILE})
                        ELSE IF idx = 0 THEN NotFound(req[c], "Rating nicht gefunden.")
                        ELSE [req[c] EXCEPT !.pc = "write", !.pending = Splice(rd.data, idx)])
       /\ UNCHANGED <<files, nextUuid, clock, received, existed, createdIds, dupCreate, deletedIds, createdRecs, replacedIds>>
    \/ FinishWrite(c, "DELETE /:resourceId/rating/:ratingId", RATINGS_FILE,
                   Save(files, RATINGS_FILE, req[c].pending), 204, NoContent)

\* ---- POST /resources/:resourceId/feedback
FeedbackRecord(id, resourceId, body, now) ==
    [id |-> id, resourceId |-> resourceId,
     feedbackText |-> Str(Trim(body.feedbackText.s)), timestamp |-> toISOString(now)]

PostFeedback(c, Rids, Bodies) ==
    \/ \E rid \in Rids, b \in Bodies :
        Arrive(c, Request("POST /:resourceId/feedback", rid, Undefined, b),
               validateFeedback(b))
    \/ CheckResource(c, "POST /:resourceId/feedback", "readFeedback")
    \/ /\ At(c, "POST /:resourceId/feedback", "readFeedback")
       /\ \E fault \in Faults, now \in Now :
            /\ Strike(fault)
            /\ LET rd == readData(files[FEEDBACK_FILE], fault)
                   newFeedback == FeedbackRecord(uuidv4(nextUuid), req[c].q.rid,
                                                 req[c].body, now)
               IN  IF ~rd.ok
                   THEN /\ Settle(c, Failed(req[c], {FEEDBACK_FILE}))
                        /\ now = clock
                        /\ UNCHANGED <<nextUuid, clock>>
                   ELSE /\ nextUuid < MaxUuid
                        /\ nextUuid' = nextUuid + 1
                        /\ clock' = now
                        /\ Settle(c,
                                [req[c] EXCEPT !.pc = "write",
                                          !.pending = Append(rd.data, newFeedback),
                                          !.rec = newFeedback])
       /\ UNCHANGED <<files, received, existed, createdIds, dupCreate, deletedIds, createdRecs, replacedIds>>
    \/ FinishWrite(c, "POST /:resourceId/feedback", FEEDBACK_FILE,
                   Save(files, FEEDBACK_FILE, req[c].pending),
                   201, Json(JsonRecord(req[c].rec)))

\* ---- PUT /resources/:resourceId/feedback/:feedbackId
PutFeedback(c, Rids, Sids, Bodies) ==
    \/ \E rid \in Rids, sid \in Sids, b \in Bodies :
        Arrive(c, Request("PUT /:resourceId/feedback/:feedbackId", rid, sid, b),
               validateFeedback(b))
    \/ CheckResource(c, "PUT /:resourceId/feedback/:feedbackId", "readFeedback")
    \/ /\ At(c, "PUT /:resourceId/feedback/:feedbackId", "readFeedback")
       /\ \E fault \in Faults, now \in Now :
            /\ Strike(fault)
            /\ LET rd == readData(files[FEEDBACK_FILE], fault)
                   idx == FindIndexByIdAndResource(rd.data, req[c].q.sid, req[c].q.rid)
                   updated == [rd.data[idx] EXCEPT
                                 !.feedbackText = Str(Trim(req[c].body.feedbackText.s)),
                                 !.timestamp = toISOString(now)]
               IN  /\ clock' = IF rd.ok /\ idx # 0 THEN now ELSE clock
                   /\ (~rd.ok \/ idx = 0) => now = clock
                   /\ Settle(c,
                        IF ~rd.ok THEN Failed(req[c], {FEEDBACK_FILE})
                        ELSE IF idx = 0 THEN NotFound(req[c], "Feedback nicht gefunden.")
                        ELSE [req[c] EXCEPT !.pc = "write",
                                       !.pending = [rd.data EXCEPT ![idx] = updated],
                                       !.rec = updated])
       /\ UNCHANGED <<files, nextUuid, received, existed, createdIds, dupCreate, deletedIds, createdRecs, replacedIds>>
    \/ FinishWrite(c, "PUT /:resourceId/feedback/:feedbackId", FEEDBACK_FILE,
                   Save(files, FEEDBACK_FILE, req[c].pending),
                   200, Json(JsonRecord(req[c].rec)))

\* ---- DELETE /resources/:resourceId/feedback/:feedbackId
DeleteFeedback(c, Rids, Sids) ==
    \/ \E rid \in Rids, sid \in Sids :
        Arrive(c, Request("DELETE /:resourceId/feedback/:feedbackId", rid, sid, <<>>),
               Accepted(<<>>))
    \/ CheckResource(c, "DELETE /:resourceId/feedback/:feedbackId", "readFeedback")
    \/ /\ At(c, "DELETE /:resourceId/feedback/:feedbackId", "readFeedback")
       /\ \E fault \in Faults :
            /\ Strike(fault)
            /\ LET rd == readData(files[FEEDBACK_FILE], fault)
                   idx == FindIndexByIdAndResource(rd.data, req[c].q.sid, req[c].q.rid)
               IN  Settle(c,
                        IF ~rd.ok THEN Failed(req[c], {FEEDBACK_FILE})
                        ELSE IF idx = 0 THEN NotFound(req[c], "Feedback nicht gefunden.")
                        ELSE [req[c] EXCEPT !.pc = "write", !.pending = Splice(rd.data, idx)])
       /\ UNCHANGED <<files, nextUuid, clock, received, existed, createdIds, dupCreate, deletedIds, createdRecs, replacedIds>>
    \/ FinishWrite(c, "DELETE /:resourceId/feedback/:feedbackId", FEEDBACK_FILE,
                   Save(files, FEEDBACK_FILE, req[c].pending), 204, NoContent)

\* ------------------------------------------------------------ inputs
Chars(n, ch) == [i \in 1..n |-> ch]

VideoBody == [title |-> Str(<<"a">>), type |-> Str(<<"V">>), url |-> Str(<<"u">>),
              authorId |-> Str(<<"w">>)]
ArticleBody == [title |-> Str(<<"b">>), type |-> Str(<<"A">>), url |-> Str(<<"u">>),
                authorId |-> Undefined]
NoTitleBody == [title |-> Str(<<>>), type |-> Str(<<"v">>), url |-> Str(<<"u">>),
                authorId |-> Undefined]

RatingBody(v) == [ratingValue |-> v, userId |-> Undefined]
FeedbackBody(s) == [feedbackText |-> Str(s)]

\* ratingValue as a client may send it: omitted, numbers (0, 1..5, 6, 4.5)
\* and strings ("abc", "3abc", "5").
RatingValues ==
    {Undefined, Num(0), Num(10), Num(20), Num(30), Num(40), Num(50), Num(60),
     Num(45), Str(<<"a", "b", "c">>), Str(<<"3", "a", "b", "c">>), Str(<<"5">>)}

PathIds == {Uuid(1), UnknownId}
SubIds == {Uuid(2), UnknownId}

\* ------------------------------------------------------------ behaviours
\* The service starts with an empty data directory.
Init ==
    /\ files = [f \in FileNames |-> AbsentFile]
    /\ req = [c \in Clients |-> IdleSlot]
    /\ last = NoResponse
    /\ nextUuid = 0
    /\ clock = 0
    /\ received = 0
    /\ faults = 0
    /\ existed = {}
    /\ createdIds = {}
    /\ dupCreate = FALSE
    /\ deletedIds = {}
    /\ createdRecs = {}
    /\ replacedIds = {}

\* The resources collection: list, search, fetch, create, replace, delete.
Next ==
    \/ \E c \in Clients : GetResources(c)
    \/ \E c \in Clients : SearchResources(c, {Undefined, Str(<<"v">>)})
    \/ \E c \in Clients : GetResource(c, PathIds)
    \/ \E c \in Clients : PostResource(c, {VideoBody, NoTitleBody})
    \/ \E c \in Clients : PutResource(c, PathIds, {ArticleBody, VideoBody})
    \/ \E c \in Clients : DeleteResource(c, PathIds)

Spec == Init /\ [][Next]_vars

\* Ratings and feedback are created while resources are created and deleted.
NextAnnotate ==
    \/ \E c \in Clients : GetResources(c)
    \/ \E c \in Clients : PostResource(c, {VideoBody})
    \/ \E c \in Clients : DeleteResource(c, {Uuid(1)})
    \/ \E c \in Clients : PostRating(c, PathIds, {RatingBody(Num(40))})
    \/ \E c \in Clients : PostFeedback(c, PathIds, {FeedbackBody(Chars(10, "f"))})

SpecAnnotate == Init /\ [][NextAnnotate]_vars

\* One resource has been created; two more requests rate it.
Resource1 == ResourceRecord(Uuid(1), VideoBody)
Resource2 == ResourceRecord(Uuid(2), ArticleBody)

InitRating ==
    /\ files = [f \in FileNames |->
                  IF f = RESOURCES_FILE THEN JsonFile(<<Resource1>>) ELSE AbsentFile]
    /\ req = [c \in Clients |-> IdleSlot]
    /\ last = NoResponse
    /\ nextUuid = 1
    /\ clock = 0
    /\ received = MaxRequests - 2
    /\ faults = 0
    /\ existed = {Uuid(1)}
    /\ createdIds = {Uuid(1)}
    /\ dupCreate = FALSE
    /\ deletedIds = {}
    /\ createdRecs = {Resource1}
    /\ replacedIds = {}

NextRating ==
    \E c \in Clients : PostRating(c, {Uuid(1)}, {RatingBody(v) : v \in RatingValues})

SpecRating == InitRating /\ [][NextRating]_vars

\* Two resources exist, with up to MaxRatings ratings (any values 1..5 for
\* the first resource, 5 for the second) and one feedback; the ratings or
\* the feedback file may be damaged.  One more request is served.
MaxRatings == 4

RatingOptions == {<<1, v>> : v \in RatingMin..RatingMax} \cup {<<2, RatingMax>>}

StoredRatings(choice) ==
    [i \in 1..Len(choice) |->
        [id |-> Uuid(2 + i), resourceId |-> Uuid(choice[i][1]),
         ratingValue |-> Num(10 * choice[i][2])]]

Feedback1 ==
    [id |-> Uuid(3 + MaxRatings), resourceId |-> Uuid(1),
     feedbackText |-> Str(Chars(10, "f")), timestamp |-> toISOString(0)]

InitAggregate ==
    /\ \E n \in 0..MaxRatings, damaged \in {"none", RATINGS_FILE, FEEDBACK_FILE} :
         \E choice \in [1..n -> RatingOptions] :
            files = [f \in FileNames |->
                        IF f = damaged THEN MalformedFile
                        ELSE IF f = RESOURCES_FILE THEN JsonFile(<<Resource1, Resource2>>)
                        ELSE IF f = RATINGS_FILE THEN JsonFile(StoredRatings(choice))
                        ELSE JsonFile(<<Feedback1>>)]
    /\ req = [c \in Clients |-> IdleSlot]
    /\ last = NoResponse
    /\ nextUuid = 3 + MaxRatings
    /\ clock = 0
    /\ received = MaxRequests - 1
    /\ faults = 0
    /\ existed = {Uuid(1), Uuid(2)}
    /\ createdIds = {Uuid(1), Uuid(2)}
    /\ dupCreate = FALSE
    /\ deletedIds = {}
    /\ createdRecs = {Resource1, Resource2}
    /\ replacedIds = {}

NextAggregate == \E c \in Clients : GetResource(c, PathIds)

SpecAggregate == InitAggregate /\ [][NextAggregate]_vars

\* Bodies of POST /resources and PUT /resources/:id: each of title and type
\* omitted, empty or given; url empty or given; authorId omitted or given.
FieldBodies ==
    {[title |-> ti, type |-> ty, url |-> u, authorId |-> au] :
        ti \in {Undefined, Str(<<>>), Str(<<"b">>)},
        ty \in {Undefined, Str(<<>>), Str(<<"A">>)},
        u \in {Str(<<>>), Str(<<"u">>)},
        au \in {Undefined, Str(<<"w">>)}}

\* One resource is stored; two more requests create or replace resources.
NextFields ==
    \/ \E c \in Clients : PostResource(c, FieldBodies)
    \/ \E c \in Clients : PutResource(c, PathIds, FieldBodies)

SpecFields == InitRating /\ [][NextFields]_vars

\* Two resources, a feedback and a rating of each are stored (records saved
\* earlier, with ids that no uuidv4() call of the behaviour returns); two
\* more requests create, edit or delete feedback and ratings, on the first
\* resource or on an unknown one.
Feedback2 ==
    [id |-> StoredId(3), resourceId |-> Uuid(2),
     feedbackText |-> Str(Chars(10, "g")), timestamp |-> toISOString(0)]

Rating1 ==
    [id |-> StoredId(1), resourceId |-> Uuid(1),
     ratingValue |-> Num(40), userId |-> Str(<<"w">>)]

Rating2 ==
    [id |-> StoredId(2), resourceId |-> Uuid(2), ratingValue |-> Num(50)]

\* feedbackText as a client may send it: omitted, blank, 9, 10 and 11
\* characters between blanks, and the longest text accepted and one more.
FeedbackTexts ==
    {Undefined, Str(<<" ", " ">>)}
    \cup {Str(<<" ">> \o Chars(n, "h") \o <<" ">>) : n \in (FeedbackMinLen - 1)..(FeedbackMinLen + 1)}
    \cup {Str(Chars(n, "k")) : n \in FeedbackMaxLen..(FeedbackMaxLen + 1)}

FeedbackBodies == {[feedbackText |-> t] : t \in FeedbackTexts}

RatingBodies == {RatingBody(Num(30)), [ratingValue |-> Num(20), userId |-> Str(<<"w">>)]}

FeedbackIds == {Feedback1.id, Feedback2.id, Uuid(3)}
RatingIds == {Rating1.id, Rating2.id, Uuid(3)}

InitAnnotations ==
    /\ files = [f \in FileNames |->
                  IF f = RESOURCES_FILE THEN JsonFile(<<Resource1, Resource2>>)
                  ELSE IF f = RATINGS_FILE THEN JsonFile(<<Rating1, Rating2>>)
                  ELSE JsonFile(<<Feedback1, Feedback2>>)]
    /\ req = [c \in Clients |-> IdleSlot]
    /\ last = NoResponse
    /\ nextUuid = 2
    /\ clock = 0
    /\ received = MaxRequests - 2
    /\ faults = 0
    /\ existed = {Uuid(1), Uuid(2)}
    /\ createdIds = {Uuid(1), Uuid(2)}
    /\ dupCreate = FALSE
    /\ deletedIds = {}
    /\ createdRecs = {Resource1, Resource2}
    /\ replacedIds = {}

NextAnnotations ==
    \/ \E c \in Clients : PostFeedback(c, PathIds, FeedbackBodies)
    \/ \E c \in Clients : PutFeedback(c, PathIds, FeedbackIds, FeedbackBodies)
    \/ \E c \in Clients : DeleteFeedback(c, PathIds, FeedbackIds)
    \/ \E c \in Clients : PostRating(c, PathIds, RatingBodies)
    \/ \E c \in Clients : DeleteRating(c, PathIds, RatingIds)

SpecAnnotations == InitAnnotations /\ [][NextAnnotations]_vars

\* Two resources of type "V" and "A" are stored; two more requests create a
\* resource (its type a string or a number, both of which the field check
\* lets through), list the resources or search them by type.
NumericTypeBody == [title |-> Str(<<"n">>), type |-> Num(50), url |-> Str(<<"u">>),
                    authorId |-> Undefined]
LowerTypeBody == [title |-> Str(<<"c">>), type |-> Str(<<"v">>), url |-> Str(<<"u">>),
                  authorId |-> Undefined]

TypeFilters == {Undefined, Str(<<>>), Str(<<"V">>), Str(<<"v">>), Str(<<"a">>), Str(<<"x">>)}

InitSearch ==
    /\ files = [f \in FileNames |->
                  IF f = RESOURCES_FILE THEN JsonFile(<<Resource1, Resource2>>)
                  ELSE AbsentFile]
    /\ req = [c \in Clients |-> IdleSlot]
    /\ last = NoResponse
    /\ nextUuid = 2
    /\ clock = 0
    /\ received = MaxRequests - 2
    /\ faults = 0
    /\ existed = {Uuid(1), Uuid(2)}
    /\ createdIds = {Uuid(1), Uuid(2)}
    /\ dupCreate = FALSE
    /\ deletedIds = {}
    /\ createdRecs = {Resource1, Resource2}
    /\ replacedIds = {}

NextSearch ==
    \/ \E c \in Clients : GetResources(c)
    \/ \E c \in Clients : SearchResources(c, TypeFilters)
    \/ \E c \in Clients : PostResource(c, {NumericTypeBody, LowerTypeBody})

SpecSearch == InitSearch /\ [][NextSearch]_vars

\* Two resources, a rating and a feedback of each are stored; two more
\* requests, which may overlap, delete the first resource, its rating or
\* its feedback, or replace, rate or edit what belongs to the second.
NextRemoval ==
    \/ \E c \in Clients : DeleteResource(c, {Uuid(1)})
    \/ \E c \in Clients : PutResource(c, {Uuid(2)}, {ArticleBody})
    \/ \E c \in Clients : DeleteRating(c, {Uuid(1)}, {Rating1.id})
    \/ \E c \in Clients : PostRating(c, {Uuid(2)}, {RatingBody(Num(30))})
    \/ \E c \in Clients : DeleteFeedback(c, {Uuid(1)}, {Feedback1.id})
    \/ \E c \in Clients : PutFeedback(c, {Uuid(2)}, {Feedback2.id},
                                        {FeedbackBody(Chars(FeedbackMinLen, "m"))})

SpecRemoval == InitAnnotations /\ [][NextRemoval]_vars

\* Two resources, a rating and a feedback of each are stored; two more
\* requests carry a body that passes or fails its validation and name a
\* stored or an unknown resource (and feedback).
NextValidation ==
    \/ \E c \in Clients : PostRating(c, PathIds,
                {RatingBody(v) : v \in {Undefined, Num(0), Num(30), Num(60),
                                        Str(<<"a", "b", "c">>)}})
    \/ \E c \in Clients : PostFeedback(c, PathIds, FeedbackBodies)
    \/ \E c \in Clients : PutFeedback(c, PathIds, {Feedback1.id, Uuid(3)}, FeedbackBodies)
    \/ \E c \in Clients : PostResource(c, FieldBodies)
    \/ \E c \in Clients : PutResource(c, PathIds, FieldBodies)

SpecValidation == InitAnnotations /\ [][NextValidation]_vars

\* Two resources, a rating and a feedback of each are stored; three more
\* requests, two of which may overlap, delete the first resource, delete
\* its rating, edit or delete its feedback, rate the second resource or
\* create a resource.
InitOrphans ==
    /\ files = [f \in FileNames |->
                  IF f = RESOURCES_FILE THEN JsonFile(<<Resource1, Resource2>>)
                  ELSE IF f = RATINGS_FILE THEN JsonFile(<<Rating1, Rating2>>)
                  ELSE JsonFile(<<Feedback1, Feedback2>>)]
    /\ req = [c \in Clients |-> IdleSlot]
    /\ last = NoResponse
    /\ nextUuid = 2
    /\ clock = 0
    /\ received = MaxRequests - 3
    /\ faults = 0
    /\ existed = {Uuid(1), Uuid(2)}
    /\ createdIds = {Uuid(1), Uuid(2)}
    /\ dupCreate = FALSE
    /\ deletedIds = {}
    /\ createdRecs = {Resource1, Resource2}
    /\ replacedIds = {}

NextOrphans ==
    \/ \E c \in Clients : DeleteResource(c, {Uuid(1)})
    \/ \E c \in Clients : PostResource(c, {ArticleBody})
    \/ \E c \in Clients : DeleteRating(c, {Uuid(1)}, {Rating1.id})
    \/ \E c \in Clients : PostRating(c, {Uuid(2)}, {RatingBody(Num(30))})
    \/ \E c \in Clients : PutFeedback(c, {Uuid(1)}, {Feedback1.id},
                                        {FeedbackBody(Chars(FeedbackMinLen, "m"))})
    \/ \E c \in Clients : DeleteFeedback(c, {Uuid(1)}, {Feedback1.id})

SpecOrphans == InitOrphans /\ [][NextOrphans]_vars

\* ------------------------------------------------------------ claims
Stored(file) == files[file].data
Idle == \A c \in Clients : req[c].pc = "idle"
ResourceWrites == {"POST /", "PUT /:id", "DELETE /:id"}

\* C1: no locking spans load and save: a mutating request on the resources
\* collection that answers success has replaced the whole stored collection
\* by its private copy (what it loaded, with its own edit applied), so a
\* record another request saved after that load is dropped.
C1_SaveReplacesCollection ==
    [][\A c \in Clients :
          (/\ req[c].pc = "write"
           /\ req[c].q.op \in ResourceWrites
           /\ req'[c].pc = "idle"
           /\ last'.status # 500)
          => files'[RESOURCES_FILE] = JsonFile(req[c].pending)]_vars

\* C1 (its case): two POST /resources, no other request, both answered 201,
\* and the stored collection holds the record of one of them only.
C1_LostUpdate ==
    /\ Idle
    /\ received = 2
    /\ faults = 0
    /\ Cardinality(createdIds) = 2
    /\ last.status = 201
    /\ files[RESOURCES_FILE].st = "ok"
    /\ Ids(Stored(RESOURCES_FILE)) = {last.out.value.id}

\* C2: the id answered by a successful POST /resources was answered by no
\* earlier one (deleted or not), and no two stored resources share an id.
C2_CreatedIdsUnique ==
    /\ ~dupCreate
    /\ \A i, j \in 1..Len(Stored(RESOURCES_FILE)) :
          i # j => Stored(RESOURCES_FILE)[i].id # Stored(RESOURCES_FILE)[j].id

\* C2 (its case): a create is answered 201 after an earlier created
\* resource was deleted.
C2_CreateAfterDelete ==
    /\ last.q.op = "POST /"
    /\ last.status = 201
    /\ deletedIds # {}
    /\ deletedIds \subseteq createdIds
    /\ last.out.value.id \notin deletedIds

\* The submitted ratingValue is an integer from 1 to 5: such a number, or
\* the decimal numeral of one.
IntegerOneToFive(v) ==
    \/ v.t = "number" /\ v.tenths \in {10 * k : k \in RatingMin..RatingMax}
    \/ v.t = "string" /\ \E k \in RatingMin..RatingMax : v.s = NatDigits(k)

\* C3: POST /resources/:id/rating on an existing resource answers 201 if and
\* only if the submitted ratingValue is an integer from 1 to 5, and 400 for
\* every other value; every stored rating has an integer ratingValue in 1..5.
C3_RatingAcceptedIffInteger ==
    /\ (last.q.op = "POST /:id/rating" /\ last.status \in {201, 400})
          => (last.status = 201 <=> IntegerOneToFive(last.q.body.ratingValue))
    /\ files[RATINGS_FILE].st = "ok"
          => \A i \in 1..Len(Stored(RATINGS_FILE)) :
                Stored(RATINGS_FILE)[i].ratingValue
                    \in {Num(10 * k) : k \in RatingMin..RatingMax}

\* C6: a load or save that fails in a /resources handler (the two scans of
\* GET /resources/:id apart) is answered by the application's error
\* handler: status 500 and the body {error: 'Internal Server Error'}.
C6_StorageErrorToAppHandler ==
    last.status = 500
        => /\ last.via = "errorHandler"
           /\ last.out = Json([error |-> "Internal Server Error"])

CreateOps == {"POST /:id/rating", "POST /:resourceId/feedback"}
AnnotationFiles == {RATINGS_FILE, FEEDBACK_FILE}

\* C4: a create of a rating or feedback goes on past its existence check
\* only with the resource of its path found in the loaded resources, the
\* record it saves and answers with 201 carries that resource's id, and so
\* every stored rating and feedback names a resource that was stored.
C4_AnnotatedResourceExisted ==
    /\ \A c \in Clients :
          (req[c].q.op \in CreateOps /\ req[c].pc \in {"readRatings", "readFeedback", "write"})
              => /\ req[c].res.id = req[c].q.rid
                 /\ req[c].res.id \in existed
                 /\ req[c].pc = "write" => req[c].rec.resourceId = req[c].res.id
    /\ (last.q.op \in CreateOps /\ last.status = 201)
          => /\ last.out.value.resourceId = last.q.rid
             /\ last.q.rid \in existed
    /\ \A f \in AnnotationFiles : \A i \in 1..Len(Stored(f)) :
          Stored(f)[i].resourceId \in existed

\* C4 (its case): a rating was answered 201 and is stored.
C4_RatingStored ==
    /\ last.q.op = "POST /:id/rating"
    /\ last.status = 201
    /\ \E i \in 1..Len(Stored(RATINGS_FILE)) :
          Stored(RATINGS_FILE)[i] = last.out.value

\* C5: no step of a DELETE /resources/:id request changes the ratings or
\* the feedback collection.
C5_DeleteLeavesAnnotations ==
    [][\A c \in Clients :
          (req'[c] # req[c] /\ "DELETE /:id" \in {req[c].q.op, req'[c].q.op})
              => \A f \in AnnotationFiles : files'[f] = files[f]]_vars

\* C5 (its case): a resource was deleted with 204 and a rating naming it is
\* still stored.
C5_OrphanRemains ==
    /\ last.q.op = "DELETE /:id"
    /\ last.status = 204
    /\ last.q.rid \notin Ids(Stored(RESOURCES_FILE))
    /\ \E i \in 1..Len(Stored(RATINGS_FILE)) :
          Stored(RATINGS_FILE)[i].resourceId = last.q.rid

TargetFile(op) ==
    CASE op = "POST /:id/rating" -> RATINGS_FILE
      [] op = "POST /:resourceId/feedback" -> FEEDBACK_FILE
      [] OTHER -> RESOURCES_FILE

\* C7: a file that was never written loads as the empty array and not as
\* an error: without a storage fault no request is answered 500, GET
\* /resources on the absent file answers 200 with [], and the first create
\* on a collection saves exactly its own record.
C7_AbsentFileLoadsEmpty ==
    /\ faults = 0 => last.status # 500
    /\ (last.q.op = "GET /" /\ last.status = 200 /\ files[RESOURCES_FILE].st = "absent")
          => last.out = Json(<<>>)
    /\ \A c \in Clients :
          (/\ req[c].pc = "write"
           /\ req[c].q.op \in CreateOps \cup {"POST /"}
           /\ files[TargetFile(req[c].q.op)].st = "absent")
              => req[c].pending = <<req[c].rec>>

\* C7 (its case): starting from the empty data directory, the first create
\* on each of the three collections has succeeded.
C7_FirstCreates ==
    /\ faults = 0
    /\ last.status = 201
    /\ \A f \in FileNames : files[f].st = "ok" /\ Len(files[f].data) = 1

\* The answer kept in `last` is a 200 of GET /resources/:id.
Fetched == last.q.op = "GET /:id" /\ last.status = 200

\* The stored records of a collection that name the resource last asked for.
StoredFor(file) == SelectSeq(Stored(file), LAMBDA x : x.resourceId = last.q.rid)

\* The stored ratingValues (integers) of the resource last asked for.
StoredValues ==
    [i \in 1..Len(StoredFor(RATINGS_FILE)) |->
        StoredFor(RATINGS_FILE)[i].ratingValue.tenths \div 10]

RECURSIVE Total(_)
Total(values) == IF Len(values) = 0 THEN 0 ELSE Head(values) + Total(Tail(values))

\* C8: GET /resources/:id for a resource that was loaded answers 200 with
\* the resource's own fields although the load of the ratings or of the
\* feedback failed; a failed ratings load gives averageRating null, a failed
\* feedback load gives feedbacks [], and the other part is reported as stored.
C8_ScanFailureDegrades ==
    (/\ last.q.op = "GET /:id"
     /\ last.q.rid \in Ids(Stored(RESOURCES_FILE))
     /\ RESOURCES_FILE \notin last.errs
     /\ last.errs # {})
    => /\ last.status = 200
       /\ \E i \in 1..Len(Stored(RESOURCES_FILE)) :
            /\ Stored(RESOURCES_FILE)[i].id = last.q.rid
            /\ \A k \in DOMAIN Stored(RESOURCES_FILE)[i] :
                  last.out.value[k] = Stored(RESOURCES_FILE)[i][k]
       /\ IF RATINGS_FILE \in last.errs
          THEN last.out.value.averageRating = Null
          ELSE last.out.value.averageRating = Null <=> StoredValues = <<>>
       /\ IF FEEDBACK_FILE \in last.errs
          THEN last.out.value.feedbacks = <<>>
          ELSE last.out.value.feedbacks = StoredFor(FEEDBACK_FILE)

\* C8 (its case): the ratings load failed, the feedback load did not, and
\* the 200 answer carries the stored feedback of the resource.
C8_RatingsLoadFailed ==
    /\ Fetched
    /\ last.errs = {RATINGS_FILE}
    /\ last.out.value.averageRating = Null
    /\ last.out.value.feedbacks # <<>>

\* C9: the averageRating reported from a loaded ratings collection with n > 0
\* ratings of the requested resource, of sum s, is the number of tenths t
\* nearest to 10 * s / n, the half rounded up (t - 1/2 <= 10s/n < t + 1/2);
\* [4,5] gives 4.5 and [3,3,4] gives 3.3; the ratings of other resources
\* are not counted.
C9_AverageIsRoundedMean ==
    (Fetched /\ RATINGS_FILE \notin last.errs /\ StoredValues # <<>>)
    => LET n == Len(StoredValues)
           sum == Total(StoredValues)
           avg == last.out.value.averageRating
       IN  /\ avg.t = "number"
           /\ 2 * n * avg.tenths - n <= 20 * sum
           /\ 20 * sum < 2 * n * avg.tenths + n
           /\ StoredValues = <<4, 5>> => avg = Num(45)
           /\ StoredValues = <<3, 3, 4>> => avg = Num(33)

\* C9 (its case): the resource has the ratings [3,3,4], another resource is
\* rated too, and 3.3 is reported.
C9_ThreeThreeFour ==
    /\ Fetched
    /\ StoredValues = <<3, 3, 4>>
    /\ Len(Stored(RATINGS_FILE)) > Len(StoredValues)
    /\ last.out.value.averageRating = Num(33)

\* C10 (as stated): averageRating is null exactly when no stored rating has
\* the requested resourceId, and otherwise a value from 1.0 to 5.0.
C10_NullIffNoStoredRating ==
    Fetched
    => LET avg == last.out.value.averageRating
       IN  /\ avg = Null <=> StoredValues = <<>>
           /\ avg # Null => avg.t = "number" /\ avg.tenths \in 10..50

\* C10 (amended): averageRating is null exactly when the ratings load of the
\* request failed or no stored rating has the requested resourceId, and
\* otherwise a value from 1.0 to 5.0; it is never 0.
C10_NullIffUnratedOrLoadFailed ==
    Fetched
    => LET avg == last.out.value.averageRating
       IN  /\ avg = Null <=> (RATINGS_FILE \in last.errs \/ StoredValues = <<>>)
           /\ avg # Null => avg.t = "number" /\ avg.tenths \in 10..50
           /\ avg # Num(0)

\* C10 (its case): null is reported for a resource that has stored ratings.
C10_NullAlthoughRated ==
    /\ Fetched
    /\ last.out.value.averageRating = Null
    /\ StoredValues # <<>>

\* The object POST /resources answered with the id.
CreatedRecord(id) == CHOOSE r \in createdRecs : r.id = id

\* The ids that were created and whose replace or delete never took effect.
Untouched == createdIds \ (deletedIds \cup replacedIds)

\* Client c's GET /resources/:id completes its load of the resources, the
\* id was answered by a create and left untouched, and no fault is involved.
FetchOfCreated(c) ==
    /\ At(c, "GET /:id", "readResources")
    /\ req'[c] # req[c]
    /\ req[c].q.rid \in Untouched
    /\ faults' = 0

\* C11 (as stated): once POST /resources has answered 201 and no replace or
\* delete of the id has taken effect, the load of GET /resources/:id finds
\* the resource with the fields of the created object, and the answer is
\* 200 with those fields.
C11_FetchReturnsCreated ==
    [][\A c \in Clients :
          /\ FetchOfCreated(c)
                => /\ req'[c].pc = "readRatings"
                   /\ req'[c].res = CreatedRecord(req[c].q.rid)
          /\ (At(c, "GET /:id", "readFeedback") /\ req'[c] # req[c])
                => /\ last'.status = 200
                   /\ \A k \in DOMAIN req[c].res : last'.out.value[k] = req[c].res[k]
                   /\ DOMAIN last'.out.value =
                        DOMAIN req[c].res \cup {"averageRating", "feedbacks"}]_vars

\* C11 (amended): the same, provided the created record is still stored
\* when the resources are loaded; when a save taken from an earlier load has
\* overwritten it (the lost update), the answer is 404.
C11_FetchReturnsCreatedIfStored ==
    [][\A c \in Clients :
          /\ FetchOfCreated(c)
                => IF req[c].q.rid \in Ids(Stored(RESOURCES_FILE))
                   THEN /\ req'[c].pc = "readRatings"
                        /\ req'[c].res = CreatedRecord(req[c].q.rid)
                   ELSE /\ last'.status = 404
                        /\ last'.q = req[c].q
          /\ (At(c, "GET /:id", "readFeedback") /\ req'[c] # req[c])
                => /\ last'.status = 200
                   /\ \A k \in DOMAIN req[c].res : last'.out.value[k] = req[c].res[k]
                   /\ DOMAIN last'.out.value =
                        DOMAIN req[c].res \cup {"averageRating", "feedbacks"}]_vars

\* C11 (its case): a created and untouched resource was fetched: 200 with
\* the fields of the created object.
C11_CreatedFetched ==
    /\ Fetched
    /\ last.q.rid \in Untouched
    /\ \A k \in DOMAIN CreatedRecord(last.q.rid) :
          last.out.value[k] = CreatedRecord(last.q.rid)[k]

ByIdOps == {"GET /:id", "PUT /:id", "DELETE /:id"}

\* Client c's request completes a load of the resources that succeeds (the
\* file is absent or holds JSON, no fault strikes) and holds no record with
\* the id of the path.
LoadsNoSuchResource(c) ==
    /\ req[c].pc = "readResources"
    /\ req'[c] # req[c]
    /\ faults' = faults
    /\ files[RESOURCES_FILE].st # "malformed"
    /\ req[c].q.rid \notin Ids(Stored(RESOURCES_FILE))

\* C13: GET, PUT (with a valid body) and DELETE on /resources/:id answer 404
\* when the loaded resources hold no record with that id, and then none of
\* the three files is written.
C13_UnknownIdNotFound ==
    [][\A c \in Clients :
          (req[c].q.op \in ByIdOps /\ LoadsNoSuchResource(c))
              => /\ req'[c].pc = "idle"
                 /\ last'.q = req[c].q
                 /\ last'.status = 404
                 /\ files' = files]_vars

\* C13 (its case): a DELETE naming no stored resource was answered 404 while
\* other resources are stored.
C13_DeleteOfUnknown ==
    /\ last.q.op = "DELETE /:id"
    /\ last.status = 404
    /\ Stored(RESOURCES_FILE) # <<>>
    /\ last.q.rid \notin Ids(Stored(RESOURCES_FILE))

\* The fields PUT /resources/:id and POST /resources take from a body.
SuppliedFields(body) ==
    {"title", "type", "url"} \cup (IF Truthy(body.authorId) THEN {"authorId"} ELSE {})

ResourceBodyOps == {"POST /", "PUT /:id"}

\* title, type and url are all present and non-empty.
FieldsPresent(body) == \A k \in {"title", "type", "url"} : Truthy(body[k])

\* A POST /resources or PUT /resources/:id is answered 400 exactly when
\* one of title, type, url is missing or empty, and goes on to its load
\* exactly when all three are given, whatever authorId is; the record built
\* and answered has an authorId field exactly when the body supplied one.
FieldCheck ==
    /\ last.q.op \in ResourceBodyOps
          => /\ last.status = 400 <=> ~FieldsPresent(last.q.body)
             /\ last.status \in {200, 201}
                   => DOMAIN last.out.value = {"id"} \cup SuppliedFields(last.q.body)
    /\ \A c \in Clients :
          req[c].q.op \in ResourceBodyOps
              => /\ FieldsPresent(req[c].q.body)
                 /\ req[c].pc = "write"
                       => DOMAIN req[c].rec = {"id"} \cup SuppliedFields(req[c].q.body)

\* C12: the field check decides as FieldCheck says in every state, and the
\* arrival of a request, rejected or not, writes no file.
C12_FieldsDecideAcceptance ==
    []FieldCheck /\ [][received' # received => files' = files]_vars

\* C12 (its case): a create without authorId was answered 201 and the
\* stored record has no authorId field.
C12_CreatedWithoutAuthor ==
    /\ last.q.op = "POST /"
    /\ last.status = 201
    /\ ~Truthy(last.q.body.authorId)
    /\ \E i \in 1..Len(Stored(RESOURCES_FILE)) :
          /\ Stored(RESOURCES_FILE)[i] = last.out.value
          /\ "authorId" \notin DOMAIN Stored(RESOURCES_FILE)[i]


AnnotationWriteOps ==
    {"POST /:id/rating", "POST /:resourceId/feedback",
     "PUT /:resourceId/feedback/:feedbackId", "DELETE /:resourceId/feedback/:feedbackId"}

DeleteRatingOp == "DELETE /:resourceId/rating/:ratingId"
PutFeedbackOp == "PUT /:resourceId/feedback/:feedbackId"
DeleteFeedbackOp == "DELETE /:resourceId/feedback/:feedbackId"

\* The collection each of the three routes searches for its record.
SearchedFile(op) == IF op = DeleteRatingOp THEN RATINGS_FILE ELSE FEEDBACK_FILE

\* Client c's request completes a load of its ratings or feedback that
\* succeeds (no fault strikes, the file is absent or holds JSON).
LoadsAnnotations(c) ==
    /\ req[c].q.op \in {DeleteRatingOp, PutFeedbackOp, DeleteFeedbackOp}
    /\ req[c].pc \in {"readRatings", "readFeedback"}
    /\ req'[c] # req[c]
    /\ faults' = faults
    /\ files[SearchedFile(req[c].q.op)].st # "malformed"

\* The positions of the loaded records with the id and the resourceId of
\* the path.
Matching(data, q) ==
    {i \in 1..Len(data) : data[i].id = q.sid /\ data[i].resourceId = q.rid}

PostFeedbackOp == "POST /:resourceId/feedback"

\* A feedbackText the validation lets through: a string whose trimmed
\* length is within the bounds.
TextInBounds(text) ==
    /\ text.t = "string"
    /\ Len(Trim(text.s)) >= FeedbackMinLen
    /\ Len(Trim(text.s)) <= FeedbackMaxLen

\* Every stored feedbackText is trimmed and of a length within the bounds,
\* and a feedback create or update is answered 400 exactly when its text is
\* no string or its trimmed length is outside the bounds.
FeedbackTextCheck ==
    /\ \A i \in 1..Len(Stored(FEEDBACK_FILE)) :
          LET text == Stored(FEEDBACK_FILE)[i].feedbackText
          IN  /\ text.t = "string"
              /\ Trim(text.s) = text.s
              /\ Len(text.s) >= FeedbackMinLen
              /\ Len(text.s) <= FeedbackMaxLen
    /\ last.q.op \in {PostFeedbackOp, PutFeedbackOp}
          => (last.status = 400 <=> ~TextInBounds(last.q.body.feedbackText))

\* C16: every feedbackText stored by feedback create or update is trimmed
\* and has a length from the minimum to the maximum; a text that is
\* missing, empty after trimming, or of a trimmed length below the minimum
\* (or above the maximum) is answered 400 on create and on update, and the
\* step that receives and validates a request writes no file.
C16_StoredTextTrimmedAndBounded ==
    /\ []FeedbackTextCheck
    /\ [][\A c \in Clients :
            (req[c].pc = "idle" /\ req'[c] # req[c]) => files' = files]_vars

\* C16 (its case): a feedback sent with blanks around a text of exactly the
\* minimum length was created, and it is stored without the blanks.
C16_MinimumTextStoredTrimmed ==
    /\ last.q.op = PostFeedbackOp
    /\ last.status = 201
    /\ Len(last.q.body.feedbackText.s) = FeedbackMinLen + 2
    /\ \E i \in 1..Len(Stored(FEEDBACK_FILE)) :
          /\ Stored(FEEDBACK_FILE)[i].id = last.out.value.id
          /\ Stored(FEEDBACK_FILE)[i].feedbackText = Str(Trim(last.q.body.feedbackText.s))
          /\ Len(Stored(FEEDBACK_FILE)[i].feedbackText.s) = FeedbackMinLen


\* Date.parse of a stored timestamp: the clock value it was formatted from.
TimeOf(timestamp) == DigitPrefix(Tail(timestamp.s), -1)

\* The record with the given id in a collection that holds one.
RecordOf(data, id) == data[FindIndexById(data, id)]

\* Client c's feedback update is answered 200 in this step.
UpdateAnswered(c) ==
    /\ At(c, PutFeedbackOp, "write")
    /\ req'[c].pc = "idle"
    /\ last'.q = req[c].q
    /\ last'.status = 200

\* C17, as stated: a feedback update answered 200 leaves the record with
\* the new trimmed text, its id and resourceId unchanged and a timestamp
\* strictly later than the one the record was stored with before, so that
\* the stored timestamp of a record only ever increases.
C17_TimestampStrictlyLater ==
    [][\A c \in Clients :
          (UpdateAnswered(c) /\ req[c].q.sid \in Ids(Stored(FEEDBACK_FILE)))
              => LET old == RecordOf(Stored(FEEDBACK_FILE), req[c].q.sid)
                     new == RecordOf(Stored(FEEDBACK_FILE)', req[c].q.sid)
                 IN  /\ new.id = old.id
                     /\ new.resourceId = old.resourceId
                     /\ new.feedbackText = Str(Trim(req[c].q.body.feedbackText.s))
                     /\ TimeOf(new.timestamp) > TimeOf(old.timestamp)]_vars

\* C17, amended: a feedback update that finds its record prepares that
\* record with the new trimmed text, the same id and resourceId, and as
\* timestamp the time read in that step, which is not earlier than the
\* timestamp of the record as loaded (the clock never goes back); when the
\* update is answered 200 the stored record and the answer are that record.
C17_TimestampIsTimeOfUpdate ==
    [][\A c \in Clients :
          /\ (At(c, PutFeedbackOp, "readFeedback") /\ req'[c].pc = "write")
                => LET old == Stored(FEEDBACK_FILE)[CHOOSE i \in Matching(Stored(FEEDBACK_FILE), req[c].q) : TRUE]
                       new == req'[c].rec
                   IN  /\ new.id = old.id
                       /\ new.resourceId = old.resourceId
                       /\ new.feedbackText = Str(Trim(req[c].q.body.feedbackText.s))
                       /\ new.timestamp = toISOString(clock')
                       /\ TimeOf(new.timestamp) = clock'
                       /\ TimeOf(new.timestamp) >= TimeOf(old.timestamp)
                       /\ clock' >= clock
          /\ UpdateAnswered(c)
                => /\ RecordOf(Stored(FEEDBACK_FILE)', req[c].q.sid) = req[c].rec
                   /\ last'.out.value = req[c].rec]_vars

\* C17 (its case): a stored feedback was updated in a later millisecond:
\* it is stored with the new text and the later timestamp.
C17_UpdatedLater ==
    /\ last.q.op = PutFeedbackOp
    /\ last.status = 200
    /\ last.q.sid = Feedback1.id
    /\ last.q.sid \in Ids(Stored(FEEDBACK_FILE))
    /\ LET new == RecordOf(Stored(FEEDBACK_FILE), last.q.sid)
       IN  /\ TimeOf(new.timestamp) > TimeOf(Feedback1.timestamp)
           /\ new.feedbackText = Str(Trim(last.q.body.feedbackText.s))
           /\ new.feedbackText # Feedback1.feedbackText


RatingOps == {"POST /:id/rating", DeleteRatingOp}

\* Every copy of a rating record the service holds: the stored ones and
\* those in the collections that rating requests are about to save.
RatingCopies ==
    {Stored(RATINGS_FILE)[i] : i \in 1..Len(Stored(RATINGS_FILE))}
    \cup UNION {{req[c].pending[i] : i \in 1..Len(req[c].pending)} :
                  c \in {d \in Clients : req[d].q.op \in RatingOps /\ req[d].pc = "write"}}

\* All copies of the rating with one id have the same fields and values,
\* which for the ratings stored at the start are the values stored then.
RatingCopiesAgree ==
    /\ \A r \in RatingCopies, t \in RatingCopies : r.id = t.id => r = t
    /\ \A r \in RatingCopies, t \in {Rating1, Rating2} : r.id = t.id => r = t

\* C19: a stored rating record never changes: whatever requests are served
\* and however they overlap, a rating id that is stored before and after a
\* step has the same id, resourceId, ratingValue and userId (or absence of
\* userId) before and after, and so has every copy about to be saved.
C19_RatingsNeverChange ==
    /\ []RatingCopiesAgree
    /\ [][\A i \in 1..Len(Stored(RATINGS_FILE)) :
            \A j \in 1..Len(Stored(RATINGS_FILE)') :
                Stored(RATINGS_FILE)[i].id = Stored(RATINGS_FILE)'[j].id
                    => Stored(RATINGS_FILE)[i] = Stored(RATINGS_FILE)'[j]]_vars

\* C19 (its case): a rating was created and the first stored rating was
\* deleted; the second stored rating and the created one are stored with
\* their values.
C19_CreatedAndDeletedAround ==
    /\ last.q.op = DeleteRatingOp
    /\ last.status = 204
    /\ Len(Stored(RATINGS_FILE)) = 2
    /\ Stored(RATINGS_FILE)[1] = Rating2
    /\ Stored(RATINGS_FILE)[2].id = Uuid(3)
    /\ Stored(RATINGS_FILE)[2].resourceId = Uuid(1)


\* Two values are strings that are equal when letter case is ignored.
EqualIgnoringCase(a, b) ==
    /\ a.t = "string"
    /\ b.t = "string"
    /\ toLowerCase(a) = toLowerCase(b)

\* C18: GET /resources/search, when its load of the resources succeeds,
\* answers 200 with exactly the stored resources, in stored order, whose
\* type equals the filter when letter case is ignored (so "V" and "v"
\* select the same resources), or with the whole collection, as GET
\* /resources does, when no filter is given; it writes no file.
C18_SearchMatchesIgnoringCase ==
    [][\A c \in Clients :
          ( /\ At(c, "GET /search", "readResources")
            /\ req'[c] # req[c]
            /\ faults' = faults
            /\ files[RESOURCES_FILE].st # "malformed" )
              => LET type == req[c].q.body.type
                     data == Stored(RESOURCES_FILE)
                 IN  /\ req'[c].pc = "idle"
                     /\ last'.q = req[c].q
                     /\ last'.status = 200
                     /\ last'.out =
                          Json(IF Truthy(type)
                               THEN SelectSeq(data, LAMBDA r : EqualIgnoringCase(r.type, type))
                               ELSE data)
                     /\ files' = files]_vars


\* The collection a mutating route saves.
SavedFile(op) ==
    IF op \in {"POST /:id/rating", DeleteRatingOp} THEN RATINGS_FILE
    ELSE IF op \in {PostFeedbackOp, PutFeedbackOp, DeleteFeedbackOp} THEN FEEDBACK_FILE
    ELSE RESOURCES_FILE

\* C21, as stated: a record whose DELETE was answered 204 is in no later
\* state of its collection, whatever requests overlap with the delete.
C21_DeletedNeverReappears ==
    \A f \in FileNames : deletedIds \cap Ids(Stored(f)) = {}

\* C21, amended: the save that is answered 204 leaves no record with the
\* deleted id in the collection, and afterwards a record with a deleted id
\* enters a collection only by the save of a request that already held a
\* copy of the collection with that record in it (loaded while the record
\* was stored) when the step began.
C21_DeletedReturnsOnlyByStaleSave ==
    [][/\ \A c \in Clients :
            (req[c].pc = "write" /\ req'[c].pc = "idle" /\ last'.status = 204)
                => /\ last'.q = req[c].q
                   /\ (IF req[c].q.op = "DELETE /:id" THEN req[c].q.rid ELSE req[c].q.sid)
                         \notin Ids(Stored(SavedFile(req[c].q.op))')
       /\ \A f \in FileNames : \A id \in deletedIds :
            (id \notin Ids(Stored(f)) /\ id \in Ids(Stored(f)'))
                => \E c \in Clients :
                      /\ req[c].pc = "write"
                      /\ SavedFile(req[c].q.op) = f
                      /\ id \in Ids(req[c].pending)
                      /\ Stored(f)' = req[c].pending]_vars

\* C21 (its case): the first resource, its rating or its feedback was
\* deleted, a later request saved the same collection, and the deleted
\* record is not in it.
C21_DeletedStaysAway ==
    /\ deletedIds # {}
    /\ last.q.op \in {"PUT /:id", "POST /:id/rating", PutFeedbackOp}
    /\ last.status \in {200, 201}
    /\ \A id \in deletedIds :
          /\ id \in Ids(<<Resource1, Rating1, Feedback1>>)
          /\ \A f \in FileNames : id \notin Ids(Stored(f))
    /\ \E id \in deletedIds :
          id \in Ids(IF SavedFile(last.q.op) = RESOURCES_FILE THEN <<Resource1>>
                     ELSE IF SavedFile(last.q.op) = RATINGS_FILE THEN <<Rating1>>
                     ELSE <<Feedback1>>)


ValidatedOps == {"POST /:id/rating", PostFeedbackOp, PutFeedbackOp} \cup ResourceBodyOps

\* The verdict of the validation that the route of q runs on its body:
\* validateRating, validateFeedback, or the field check of the handler.
PassesValidation(q) ==
    IF q.op = "POST /:id/rating" THEN validateRating(q.body).ok
    ELSE IF q.op \in {PostFeedbackOp, PutFeedbackOp} THEN TextInBounds(q.body.feedbackText)
    ELSE FieldsPresent(q.body)

\* Only requests whose body passed its validation are being handled (are at
\* a load or a save), and the answer to a request whose body failed it is
\* 400, never 404.
ValidationFirst ==
    /\ \A c \in Clients :
          (req[c].pc # "idle" /\ req[c].q.op \in ValidatedOps) => PassesValidation(req[c].q)
    /\ (last.q.op \in ValidatedOps /\ ~PassesValidation(last.q)) => last.status = 400
    /\ (last.q.op \in ValidatedOps /\ last.status = 400) => ~PassesValidation(last.q)

Naming(data, id) == SelectSeq(data, LAMBDA x : x.resourceId = id)

\* C23, as stated: once DELETE of a resource was answered 204, every stored
\* rating and feedback naming it is stored unchanged after every step (no
\* storage fault striking), and every answer to a DELETE of such a rating
\* or a PUT or DELETE of such a feedback is 404.
C23_OrphansStayForever ==
    [][\A id \in deletedIds :
          faults' = faults
              => /\ \A f \in AnnotationFiles :
                      Naming(Stored(f)', id) = Naming(Stored(f), id)
                 /\ (last' # last /\ last'.q.op \in {DeleteRatingOp, PutFeedbackOp, DeleteFeedbackOp} /\ last'.q.rid = id)
                      => last'.status = 404]_vars

\* No request in flight knows resource id as stored: the resource is not
\* stored, no request naming it is past its lookup of the resource, no
\* request is about to save a resources collection that holds it, and the
\* ratings or feedback a request is about to save name it in exactly the
\* records that are stored.
Settled(id) ==
    /\ id \notin Ids(Stored(RESOURCES_FILE))
    /\ \A c \in Clients :
          /\ (req[c].pc # "idle" /\ req[c].q.rid = id) => req[c].pc = "readResources"
          /\ req[c].pc = "write"
                => IF SavedFile(req[c].q.op) = RESOURCES_FILE
                   THEN id \notin Ids(req[c].pending)
                   ELSE Naming(req[c].pending, id) =
                            Naming(Stored(SavedFile(req[c].q.op)), id)

\* C23, amended: once a resource has been deleted and no request is in
\* flight that looked it up or loaded a collection before the delete was
\* saved, this stays so (its id is never issued to a new resource), every
\* rating and feedback naming it stays stored unchanged as long as no
\* storage fault strikes, and DELETE of such a rating and PUT/DELETE of
\* such a feedback answer 404 at the lookup of the resource (which loads
\* the resources file, absent or holding JSON).
C23_OrphansStayOnceSettled ==
    [][\A id \in deletedIds :
          (Settled(id) /\ faults' = faults)
              => /\ Settled(id)'
                 /\ \A f \in AnnotationFiles :
                      Naming(Stored(f)', id) = Naming(Stored(f), id)
                 /\ \A c \in Clients :
                      (req[c].q.op \in {DeleteRatingOp, PutFeedbackOp, DeleteFeedbackOp} /\ req[c].q.rid = id /\ req'[c] # req[c]
                       /\ req[c].pc # "idle" /\ files[RESOURCES_FILE].st # "malformed")
                          => /\ req'[c].pc = "idle"
                             /\ last'.q = req[c].q
                             /\ last'.status = 404]_vars

\* C23 (its case): the first resource was deleted, and a later DELETE of
\* its rating was answered 404; its rating and its feedback are stored as
\* they were.
C23_OrphanRatingKept ==
    /\ Uuid(1) \in deletedIds
    /\ Settled(Uuid(1))
    /\ last.q.op = DeleteRatingOp
    /\ last.q.rid = Uuid(1)
    /\ last.status = 404
    /\ Naming(Stored(RATINGS_FILE), Uuid(1)) = <<Rating1>>
    /\ Naming(Stored(FEEDBACK_FILE), Uuid(1)) = <<Feedback1>>

=============================================================================
